---------------------------- MODULE Spec2Model ----------------------------
(*************************************************************************)
(* Model of the frame-level compositing pipeline of                      *)
(* 01_product_ad_generation.ipynb: split_video_to_frames,                *)
(* overlay_product_simple, create_video_with_overlay, the orchestration  *)
(* cell (split, overlay + assemble, clean up) and convert_to_h264.       *)
(*                                                                       *)
(* Two levels share the module.  The pipeline level keeps the frame      *)
(* directory, the output files and each run's position; a frame is an    *)
(* abstract value there (which run decoded it, at which position).  A    *)
(* kernel executes the cells again and again, each execution a run; the  *)
(* files outlive the run, the notebook's variables are rebound by it.  The *)
(* pixel level keeps one background array and one product array and      *)
(* applies overlay_product_simple to them channel by channel.  The shape *)
(* rule of the blend (numpy broadcasting) is one operator used by both.  *)
(*************************************************************************)
EXTENDS Integers, Sequences, FiniteSets, TLC

VARIABLES
    dirExists,    \* frames_folder 'videos/temp_frames' exists
    dirFiles,     \* frame index i |-> contents of frame_<i:04d>.jpg
    outFile,      \* the file at output_path 'videos/output_video_overlay.mp4'
    h264File,     \* the file at output_path_h264
    started,      \* how many executions of the cells have begun
    runId,        \* runId[r]: which execution kernel r is running (0: none yet)
    pc,           \* pc[r]: position of kernel r's run in the orchestration
    inp,          \* inp[r]: the inputs and environment of the run
    ret,          \* ret[r]: frame_count returned by split_video_to_frames
    err,          \* err[r]: the exception that ended the run
    log,          \* log[r]: the calls and file operations the run has made
    clip,         \* clip[r]: the VideoFileClip of convert_to_h264
    background,   \* pixel level: the array passed as background
    product_img,  \* pixel level: the array passed as product_img
    bg0,          \* pixel level: the background as it was before the call
    result,       \* pixel level: what overlay_product_simple returned
    resize_args,  \* resize_and_pad_image: the image's size and the arguments
    final_img     \* resize_and_pad_image: how the call ended, and its geometry

pipeVars  == <<dirExists, dirFiles, outFile, h264File, started, runId, pc, inp, ret,
               err, log, clip>>
blendVars == <<background, product_img, bg0, result>>
resizeVars == <<resize_args, final_img>>
vars      == <<dirExists, dirFiles, outFile, h264File, started, runId, pc, inp, ret,
               err, log, clip, background, product_img, bg0, result,
               resize_args, final_img>>

-----------------------------------------------------------------------------
(* Bounds of the model.                                                    *)

NumKernels    == 2  \* notebook kernels that can execute the cells at once
MaxExecutions == 2  \* executions of the cells, one after another or overlapping
MaxFrames     == 3  \* frames of a short input video: 0..MaxFrames
MaxDim        == 2  \* image height and width range over 1..MaxDim
LongExtra     == 1  \* a long video has up to PadLimit + LongExtra frames
MaxImage      == 3  \* width and height of the image to resize: 1..MaxImage
MaxTarget     == 4  \* target_width and target_height: 1..MaxTarget

Runs == 1..NumKernels
Dims == (1..MaxDim) \X (1..MaxDim)

-----------------------------------------------------------------------------
(* Pixel level: overlay_product_simple.                                    *)

\* uint8 storage: assigning into a uint8 array keeps the low 8 bits.
Uint8Range == 256
CastUint8(n) == n % Uint8Range

AlphaMax == 255

\* The numerator of bg*(1-a) + fg*a with a = A/255, over the denominator 255.
BlendNum(bg, fg, A) == bg * (AlphaMax - A) + fg * A

\* alpha = A / 255.0 and the blend are float64.  For A = 0 and A = 255 the
\* weights are exactly 1.0 and 0.0 and the sum is exact.  Otherwise, when the
\* exact value is a whole number k >= 1, the float64 sum can fall one ulp
\* short of k (3*(1-5/255.0) + 3*(5/255.0) = 2.9999999999999996).
MayRoundBelow(bg, fg, A) ==
    /\ 0 < A /\ A < AlphaMax
    /\ BlendNum(bg, fg, A) % AlphaMax = 0
    /\ BlendNum(bg, fg, A) >= AlphaMax

\* One channel of one pixel: the float64 value, truncated by the store into
\* the uint8 background.  below: the triples whose float64 sum falls short.
BlendChannelAlpha256(bg, fg, A, below) ==
    CastUint8((bg * (Uint8Range - A) + fg * A) \div Uint8Range)
BlendChannelWrap(bg, fg, A, below) == CastUint8(bg + (fg * A) \div AlphaMax)
BlendChannel(bg, fg, A, below) ==
    IF <<bg, fg, A>> \in below /\ MayRoundBelow(bg, fg, A)
    THEN CastUint8(BlendNum(bg, fg, A) \div AlphaMax - 1)
    ELSE CastUint8(BlendNum(bg, fg, A) \div AlphaMax)

\* An array of shape (h, w, ch): px[<<i, j>>] is the tuple of its ch channels.
Pos(h, w) == (1..h) \X (1..w)
Image(h, w, ch, pal, a, b, c) ==
    [h |-> h, w |-> w, ch |-> ch,
     px |-> [p \in Pos(h, w) |->
                pal[((a * p[1] + b * p[2] + c) % Len(pal)) + 1]]]

BgPalette3 == << <<0, 0, 0>>, <<255, 255, 255>>, <<3, 100, 200>> >>
BgPalette4 == << <<0, 0, 0, 255>>, <<255, 255, 255, 255>>, <<3, 100, 200, 7>> >>
ProdPalette4 == << <<3, 100, 200, 0>>, <<10, 128, 255, 255>>, <<3, 0, 255, 5>>,
                   <<0, 255, 77, 254>>, <<200, 50, 1, 128>> >>
ProdPalette3 == << <<3, 100, 200>>, <<10, 128, 255>> >>

Backgrounds ==
    { Image(d[1], d[2], 3, BgPalette3, a, b, c) :
        d \in Dims, a \in 0..1, b \in 0..1, c \in 0..(Len(BgPalette3) - 1) }
    \cup
    { Image(d[1], d[2], 4, BgPalette4, a, b, c) :
        d \in Dims, a \in 0..1, b \in 0..1, c \in 0..(Len(BgPalette4) - 1) }

Products ==
    { Image(d[1], d[2], 4, ProdPalette4, a, b, c) :
        d \in Dims, a \in 0..1, b \in 0..1, c \in 0..(Len(ProdPalette4) - 1) }
    \cup
    { Image(d[1], d[2], 3, ProdPalette3, 1, 0, 0) : d \in Dims }

\* numpy broadcasting of two 2-D operands: per axis the sizes are equal or one
\* of them is 1.  NoShape when the operands cannot be broadcast together.
NoShape == <<0, 0>>
BroadcastAxis(m, n) == IF m = n THEN m ELSE IF m = 1 THEN n ELSE IF n = 1 THEN m ELSE 0
BroadcastShape(s, t) ==
    IF BroadcastAxis(s[1], t[1]) = 0 \/ BroadcastAxis(s[2], t[2]) = 0
    THEN NoShape
    ELSE <<BroadcastAxis(s[1], t[1]), BroadcastAxis(s[2], t[2])>>

\* background[:, :, c] = <value of shape v>: the value is broadcast to the
\* shape of the target, which needs each axis of v equal to the target's or 1.
AssignableTo(v, target) ==
    /\ (v[1] = target[1] \/ v[1] = 1)
    /\ (v[2] = target[2] \/ v[2] = 1)

\* How the blend of a (bh, bw) background with a (ph, pw) product ends:
\* "ok", or the exception numpy raises.
BlendShapeOutcome(bshape, pshape) ==
    IF BroadcastShape(bshape, pshape) = NoShape THEN "ValueError"
    ELSE IF ~AssignableTo(BroadcastShape(bshape, pshape), bshape) THEN "ValueError"
    ELSE "ok"

\* Element <<i, j>> of an operand of shape (h, w) broadcast to a larger shape.
BroadcastIndex(p, h, w) ==
    <<IF h = 1 THEN 1 ELSE p[1], IF w = 1 THEN 1 ELSE p[2]>>

\* cv2.cvtColor(background, cv2.COLOR_BGR2BGRA): a new array, alpha 255.
BGR2BGRA(img) ==
    [img EXCEPT !.ch = 4, !.px = [p \in DOMAIN img.px |-> Append(img.px[p], AlphaMax)]]

\* cv2.cvtColor(frame, cv2.COLOR_BGRA2BGR): a new array without the alpha.
BGRA2BGR(img) ==
    [img EXCEPT !.ch = 3, !.px = [p \in DOMAIN img.px |-> SubSeq(img.px[p], 1, 3)]]

\* The triples (bg, fg, A) the blend of bgd with prod evaluates.
BlendTriples(bgd, prod) ==
    IF prod.ch < 4 \/ BlendShapeOutcome(<<bgd.h, bgd.w>>, <<prod.h, prod.w>>) # "ok"
    THEN {} ELSE
    { <<bgd.px[p][c], prod.px[BroadcastIndex(p, prod.h, prod.w)][c],
        prod.px[BroadcastIndex(p, prod.h, prod.w)][4]>> :
        p \in DOMAIN bgd.px, c \in 1..3 }

\* overlay_product_simple(background, product_img): [kind |-> "raise", ...]
\* or [kind |-> "ok", img |-> the array returned, inplace |-> whether that
\* array is the caller's background (a 4-channel background is blended in
\* place; a 3-channel one is converted into a new array first)].
overlay_product_simple(bgd, prod, below) ==
    IF prod.ch < 4
    THEN [kind |-> "raise", error |-> "IndexError"]
    ELSE IF BlendShapeOutcome(<<bgd.h, bgd.w>>, <<prod.h, prod.w>>) # "ok"
    THEN [kind |-> "raise",
          error |-> BlendShapeOutcome(<<bgd.h, bgd.w>>, <<prod.h, prod.w>>)]
    ELSE LET b4 == IF bgd.ch = 3 THEN BGR2BGRA(bgd) ELSE bgd
             q(p) == prod.px[BroadcastIndex(p, prod.h, prod.w)]
         IN  [kind |-> "ok",
              inplace |-> (bgd.ch # 3),
              img |-> [b4 EXCEPT !.px =
                         [p \in DOMAIN b4.px |->
                            [c \in 1..4 |->
                               IF c = 4 THEN b4.px[p][4]
                               ELSE BlendChannel(b4.px[p][c], q(p)[c], q(p)[4],
                                                 below)]]]]

\* ProductAfterCall with the product's colours multiplied by its alpha in place.
ProductPremultiplied(bgd, prod, below) ==
    IF prod.ch < 4 THEN prod
    ELSE [prod EXCEPT !.px =
            [p \in DOMAIN prod.px |->
                [c \in 1..4 |-> IF c = 4 THEN prod.px[p][4]
                                ELSE (prod.px[p][c] * prod.px[p][4]) \div AlphaMax]]]

\* The caller's product array after overlay_product_simple: the function
\* slices and multiplies product_img, which yields new arrays, and assigns
\* into background only.
ProductAfterCall(bgd, prod, below) == prod

-----------------------------------------------------------------------------
(* Pipeline level: file names and the directory listing.                   *)

PadWidth == 4     \* f'frame_{frame_count:04d}.jpg'
Radix    == 10

RECURSIVE Power(_, _)
Power(b, e) == IF e = 0 THEN 1 ELSE b * Power(b, e - 1)

\* The first frame count whose last index no longer fits PadWidth digits is
\* PadLimit + 1 (indices 0..PadLimit).
PadLimit == Power(Radix, PadWidth)

RECURSIVE Digits(_)
Digits(n) == IF n < Radix THEN <<n>> ELSE Append(Digits(n \div Radix), n % Radix)

RECURSIVE ZeroPad(_, _)
ZeroPad(s, width) == IF Len(s) >= width THEN s ELSE ZeroPad(<<0>> \o s, width)

\* Character codes: '0' is 48, '.' is 46, '_' is 95.
CodeOfZero == 48
FramePrefix == <<102, 114, 97, 109, 101, 95>>     \* "frame_"
JpgSuffix   == <<46, 106, 112, 103>>              \* ".jpg"

\* f'frame_{i:04d}.jpg' as its sequence of character codes.
FrameName(i) ==
    LET d == ZeroPad(Digits(i), PadWidth)
    IN  FramePrefix \o [k \in 1..Len(d) |-> CodeOfZero + d[k]] \o JpgSuffix

\* Python's str comparison: by code point, a proper prefix sorts first.
RECURSIVE StrLess(_, _, _)
StrLess(s, t, k) ==
    IF k > Len(s) THEN k <= Len(t)
    ELSE IF k > Len(t) THEN FALSE
    ELSE IF s[k] # t[k] THEN s[k] < t[k]
    ELSE StrLess(s, t, k + 1)

\* Contents of a frame file: the video (run) it was decoded from, its position
\* in that video, its shape, and whether cv2.imread can read it back.
Absent == [vid |-> 0, k |-> 0, shape |-> <<0, 0>>, ok |-> FALSE]
IsFile(c) == c.vid # 0

\* dirFiles[i + 1] is the file named FrameName(i).
FileAt(files, i) == IF (i + 1) \in DOMAIN files THEN files[i + 1] ELSE Absent

\* os.listdir(frames_folder), as frame indices (in no order the code relies on).
ListDir(files) ==
    SelectSeq([i \in 1..Len(files) |-> i - 1], LAMBDA i : IsFile(files[i + 1]))

\* sorted(os.listdir(frames_folder)): ascending by file name.
SortedListing(files) ==
    LET name == [i \in 1..Len(files) |-> FrameName(i - 1)]
    IN  SortSeq(ListDir(files), LAMBDA i, j : StrLess(name[i + 1], name[j + 1], 1))

-----------------------------------------------------------------------------
(* Inputs of a run.                                                        *)

Fps24 == 24     \* def create_video_with_overlay(..., fps=24); fps=24 in convert_to_h264

\* The fps argument of create_video_with_overlay: the default, which the
\* orchestration cell uses, and another rate a caller can pass.
FrameRates == {12, Fps24}

\* What can go wrong in a run: mkdir fails; cap.read() fails on frame faultAt
\* of the video; cv2.imwrite fails on frame faultAt; the file of frame faultAt
\* cannot be read back; the product image does not load; the writer does not
\* open; write_videofile fails.
Faults == {"none", "mkdir", "decode", "imwrite", "corrupt", "noproduct", "writer",
           "transcode"}
PipeShapes == {<<1, 1>>, <<MaxDim, MaxDim>>}
FullShape  == <<MaxDim, MaxDim>>

\* The videos: one that cannot be opened, and one of every length 0..MaxFrames.
VideoChoices ==
    {[openable |-> FALSE, nframes |-> 0]}
    \cup {[openable |-> TRUE, nframes |-> n] : n \in 0..MaxFrames}

\* Every video, without a fault and with frames of the product's shape; on
\* the video of MaxFrames frames also every pair of shapes, and every fault.
FullVideo == [openable |-> TRUE, nframes |-> MaxFrames]
Inputs ==
    { i \in [video : VideoChoices, fshape : PipeShapes, pshape : PipeShapes,
             fault : Faults, faultAt : 0..1, fps : FrameRates] :
        /\ i.fault \notin {"decode", "imwrite", "corrupt"} => i.faultAt = 0
        /\ i.fault # "none" => (i.fshape = FullShape /\ i.pshape = FullShape)
        /\ i.fps # Fps24 => (i.fshape = FullShape /\ i.pshape = FullShape)
        /\ (i.fault # "none" \/ i.fshape # FullShape \/ i.pshape # FullShape)
              => (i.video = FullVideo /\ i.fps = Fps24) }

\* Videos long enough that the frame index outgrows PadWidth digits, with a
\* product image that loads and with one that does not.
LongInputs ==
    { [video |-> [openable |-> TRUE, nframes |-> n], fshape |-> FullShape,
       pshape |-> FullShape, fault |-> f, faultAt |-> 0, fps |-> Fps24] :
        n \in PadLimit..(PadLimit + LongExtra), f \in {"none", "noproduct"} }

NoInput == [video |-> [openable |-> FALSE, nframes |-> 0], fshape |-> <<0, 0>>,
            pshape |-> <<0, 0>>, fault |-> "none", faultAt |-> 0, fps |-> 0]

NoFile == [exists |-> FALSE, released |-> FALSE, by |-> 0, frames |-> <<>>,
           fps |-> 0, size |-> <<0, 0>>, ch |-> 0]

Active   == {"Extracting", "CompositingAssembling", "Cleaning", "Transcoding"}
Terminal == {"Done", "Failed"}

Ev(op, arg) == <<op, arg>>

-----------------------------------------------------------------------------
(* The orchestration cell and the transcoding cell, one action per call.   *)

Raise(r, e) ==
    /\ pc' = [pc EXCEPT ![r] = "Failed"]
    /\ err' = [err EXCEPT ![r] = e]

\* Kernel r executes the cells (again): video_path, product_path and the
\* environment are fixed, the notebook's variables start afresh.  The files
\* are those the earlier executions left.
Begin(r, i) ==
    /\ pc[r] \notin Active
    /\ started < MaxExecutions
    /\ \A q \in Runs : q < r => pc[q] # "Idle"
    /\ started' = started + 1
    /\ runId' = [runId EXCEPT ![r] = started + 1]
    /\ pc' = [pc EXCEPT ![r] = "Extracting"]
    /\ inp' = [inp EXCEPT ![r] = i]
    /\ ret' = [ret EXCEPT ![r] = -1]
    /\ err' = [err EXCEPT ![r] = "none"]
    /\ log' = [log EXCEPT ![r] = <<>>]
    /\ clip' = [clip EXCEPT ![r] = "none"]
    /\ UNCHANGED <<dirExists, dirFiles, outFile, h264File>>
    /\ UNCHANGED <<blendVars, resizeVars>>

\* One run at a time, in one kernel: the cells are executed again after the
\* earlier run ended.
Start(r) ==
    /\ \A q \in Runs \ {r} : pc[q] = "Idle"
    /\ \E i \in Inputs : Begin(r, i)

\* The same, on a video whose frame count exceeds PadLimit.
StartLong(r) ==
    /\ \A q \in Runs \ {r} : pc[q] = "Idle"
    /\ \E i \in LongInputs : Begin(r, i)

\* Another kernel executes the cells while a run is still under way.
StartOverlapping(r) ==
    /\ \E q \in Runs \ {r} : pc[q] \in Active
    /\ \E i \in Inputs : Begin(r, i)

\* The frames cap.read() yields before it first returns ret = False: none
\* when the capture is not opened, those before a frame that does not decode.
Decoded(i) ==
    IF ~i.video.openable THEN 0
    ELSE IF i.fault = "decode" /\ i.faultAt < i.video.nframes THEN i.faultAt
    ELSE i.video.nframes

\* cv2.imwrite(output_path, frame) of frame k of run r: the file it leaves.
Written(r, k) ==
    [vid |-> runId[r], k |-> k, shape |-> inp[r].fshape,
     ok |-> ~(inp[r].fault = "corrupt" /\ inp[r].faultAt = k)]
ImwriteFails(r, k) == inp[r].fault = "imwrite" /\ inp[r].faultAt = k

\* AfterSplit with frame_count incremented before the file name is formed.
AfterSplitCountFirst(r, files, n) ==
    [j \in 1..(IF n + 1 > Len(files) THEN n + 1 ELSE Len(files)) |->
        IF 2 <= j /\ j <= n + 1 /\ ~ImwriteFails(r, j - 2) THEN Written(r, j - 2)
        ELSE FileAt(files, j - 1)]

\* The directory after the loop of split_video_to_frames has run n times.
AfterSplit(r, files, n) ==
    [j \in 1..(IF n > Len(files) THEN n ELSE Len(files)) |->
        IF j <= n /\ ~ImwriteFails(r, j - 1) THEN Written(r, j - 1)
        ELSE FileAt(files, j - 1)]

split_video_to_frames(r) ==
    /\ pc[r] = "Extracting"
    /\ IF inp[r].fault = "mkdir"
       THEN /\ Raise(r, "OSError")
            /\ log' = [log EXCEPT ![r] = Append(@, Ev("mkdir", -1))]
            /\ UNCHANGED <<dirExists, dirFiles, ret>>
       ELSE /\ dirExists' = TRUE
            /\ dirFiles' = AfterSplit(r, dirFiles, Decoded(inp[r]))
            /\ ret' = [ret EXCEPT ![r] = Decoded(inp[r])]
            /\ log' = [log EXCEPT ![r] =
                         @ \o <<Ev("mkdir", -1), Ev("VideoCapture", -1)>>
                           \o [k \in 1..Decoded(inp[r]) |-> Ev("imwrite", k - 1)]
                           \o <<Ev("cap.release", -1)>>]
            /\ pc' = [pc EXCEPT ![r] = "CompositingAssembling"]
            /\ UNCHANGED err
    /\ UNCHANGED <<outFile, h264File, started, runId, inp, clip>>
    /\ UNCHANGED <<blendVars, resizeVars>>

\* What overlay_product_simple does with the frame read from a file: the
\* exception of imread's None (background.shape), or the shape rule of the blend.
FrameOutcome(c, pshape) ==
    IF ~c.ok THEN "AttributeError" ELSE BlendShapeOutcome(c.shape, pshape)

\* Position in the listing of the first frame whose overlay raises
\* (Len(listing) + 1 when none does).
FirstRaise(files, listing, pshape) ==
    LET bad == { j \in 1..Len(listing) :
                   FrameOutcome(FileAt(files, listing[j]), pshape) # "ok" }
    IN  IF bad = {} THEN Len(listing) + 1
        ELSE CHOOSE j \in bad : \A i \in bad : j <= i

\* The frames the writer holds after the loop stopped before position stop:
\* out.write drops a frame whose size is not the writer's.
FramesWritten(files, listing, stop, size) ==
    LET kept == SelectSeq(SubSeq(listing, 1, stop - 1),
                          LAMBDA i : FileAt(files, i).shape = size)
    IN  [j \in 1..Len(kept) |->
            [vid |-> FileAt(files, kept[j]).vid, k |-> FileAt(files, kept[j]).k]]

\* LoopLog with every frame overlaid before the first one is written.
LoopLogOverlayAllFirst(listing, stop) ==
    LET n == IF stop > Len(listing) THEN Len(listing) ELSE stop
    IN  [j \in 1..(2 * n) |->
            IF j <= n THEN Ev("overlay", listing[j])
            ELSE Ev("out.write", listing[j - n])]

\* The calls of the loop, up to and including the overlay call at position stop.
LoopLog(listing, stop) ==
    LET n == IF stop > Len(listing) THEN Len(listing) ELSE stop
    IN  [j \in 1..(2 * n) |->
            IF j % 2 = 1 THEN Ev("overlay", listing[(j + 1) \div 2])
            ELSE Ev("out.write", listing[j \div 2])]

\* cv2.imread(frame_path) with the default flag yields a 3-channel array.
ImreadChannels == 3

\* The channels of the array handed to out.write for a frame of ch channels:
\* overlay_product_simple returns 4 channels for a 3-channel frame, and the
\* loop converts a 4-channel result back with COLOR_BGRA2BGR.
WriterChannels(ch) ==
    LET overlaid == IF ch = 3 THEN 4 ELSE ch
    IN  IF overlaid = 4 THEN 3 ELSE overlaid

create_video_with_overlay(r) ==
    /\ pc[r] = "CompositingAssembling"
    /\ \E listing \in {SortedListing(dirFiles)} :
       \E stop \in {FirstRaise(dirFiles, listing, inp[r].pshape)} :
       LET size    == FileAt(dirFiles, listing[1]).shape
           opened  == inp[r].fault # "writer"
       IN  IF inp[r].fault = "noproduct"
           THEN /\ Raise(r, "ValueError")
                /\ log' = [log EXCEPT ![r] = Append(@, Ev("imread product", -1))]
                /\ UNCHANGED outFile
           ELSE IF ~dirExists
           THEN /\ Raise(r, "FileNotFoundError")
                /\ log' = [log EXCEPT ![r] =
                             @ \o <<Ev("imread product", -1), Ev("listdir", -1)>>]
                /\ UNCHANGED outFile
           ELSE IF listing = <<>>
           THEN /\ Raise(r, "IndexError")
                /\ log' = [log EXCEPT ![r] =
                             @ \o <<Ev("imread product", -1), Ev("listdir", -1)>>]
                /\ UNCHANGED outFile
           ELSE IF ~FileAt(dirFiles, listing[1]).ok
           THEN /\ Raise(r, "AttributeError")
                /\ log' = [log EXCEPT ![r] =
                             @ \o <<Ev("imread product", -1), Ev("listdir", -1),
                                    Ev("imread first", listing[1])>>]
                /\ UNCHANGED outFile
           ELSE /\ outFile' =
                     IF opened
                     THEN [exists |-> TRUE, released |-> stop > Len(listing),
                           by |-> runId[r], fps |-> inp[r].fps, size |-> size,
                           ch |-> WriterChannels(ImreadChannels),
                           frames |-> FramesWritten(dirFiles, listing, stop, size)]
                     ELSE outFile
                /\ log' = [log EXCEPT ![r] =
                             @ \o <<Ev("imread product", -1), Ev("listdir", -1),
                                    Ev("imread first", listing[1]),
                                    Ev("VideoWriter", -1)>>
                               \o LoopLog(listing, stop)
                               \o (IF stop > Len(listing)
                                   THEN <<Ev("out.release", -1)>> ELSE <<>>)]
                /\ IF stop > Len(listing)
                   THEN /\ pc' = [pc EXCEPT ![r] = "Cleaning"]
                        /\ UNCHANGED err
                   ELSE Raise(r, FrameOutcome(FileAt(dirFiles, listing[stop]),
                                              inp[r].pshape))
    /\ UNCHANGED <<dirExists, dirFiles, h264File, started, runId, inp, ret, clip>>
    /\ UNCHANGED <<blendVars, resizeVars>>

\* for frame_file in os.listdir(frames_folder): os.remove(...); os.rmdir(...)
CleanUp(r) ==
    /\ pc[r] = "Cleaning"
    /\ IF ~dirExists
       THEN /\ Raise(r, "FileNotFoundError")
            /\ log' = [log EXCEPT ![r] = Append(@, Ev("listdir", -1))]
            /\ UNCHANGED <<dirExists, dirFiles>>
       ELSE /\ dirExists' = FALSE
            /\ dirFiles' = <<>>
            /\ log' = [log EXCEPT ![r] =
                         @ \o <<Ev("listdir", -1), Ev("remove", Len(ListDir(dirFiles))),
                                Ev("rmdir", -1)>>]
            /\ pc' = [pc EXCEPT ![r] = "Transcoding"]
            /\ UNCHANGED err
    /\ UNCHANGED <<outFile, h264File, started, runId, inp, ret, clip>>
    /\ UNCHANGED <<blendVars, resizeVars>>

\* VideoFileClip(input_file) needs a finished container with a frame in it.
Readable(f) == f.exists /\ f.released /\ f.frames # <<>>

\* write_videofile(..., fps=dst) of a clip of rate src: one frame for every
\* t = j/dst below the clip's duration Len(frames)/src, the clip's frame at t.
Resample(frames, src, dst) ==
    [j \in 1..((Len(frames) * dst + src - 1) \div src) |->
        frames[((j - 1) * src) \div dst + 1]]

convert_to_h264(r) ==
    /\ pc[r] = "Transcoding"
    /\ IF ~Readable(outFile)
       THEN /\ Raise(r, "OSError")
            /\ log' = [log EXCEPT ![r] = Append(@, Ev("VideoFileClip", -1))]
            /\ UNCHANGED <<h264File, clip>>
       ELSE IF inp[r].fault = "transcode"
       THEN /\ Raise(r, "OSError")
            /\ clip' = [clip EXCEPT ![r] = "open"]
            /\ h264File' = [exists |-> TRUE, released |-> FALSE, by |-> runId[r],
                            frames |-> <<>>, fps |-> Fps24, size |-> outFile.size,
                            ch |-> outFile.ch]
            /\ log' = [log EXCEPT ![r] =
                         @ \o <<Ev("VideoFileClip", -1), Ev("write_videofile", -1)>>]
       ELSE /\ clip' = [clip EXCEPT ![r] = "closed"]
            /\ h264File' = [exists |-> TRUE, released |-> TRUE, by |-> runId[r],
                            frames |-> Resample(outFile.frames, outFile.fps, Fps24),
                            fps |-> Fps24, size |-> outFile.size,
                            ch |-> outFile.ch]
            /\ log' = [log EXCEPT ![r] =
                         @ \o <<Ev("VideoFileClip", -1), Ev("write_videofile", -1),
                                Ev("clip.close", -1)>>]
            /\ pc' = [pc EXCEPT ![r] = "Done"]
            /\ UNCHANGED err
    /\ UNCHANGED <<dirExists, dirFiles, outFile, started, runId, inp, ret>>
    /\ UNCHANGED <<blendVars, resizeVars>>

\* The caller interrupts the kernel: KeyboardInterrupt ends the cell where it is.
Abort(r) ==
    /\ pc[r] \in Active
    /\ Raise(r, "KeyboardInterrupt")
    /\ log' = [log EXCEPT ![r] = Append(@, Ev("interrupt", -1))]
    /\ UNCHANGED <<dirExists, dirFiles, outFile, h264File, started, runId, inp, ret, clip>>
    /\ UNCHANGED <<blendVars, resizeVars>>

-----------------------------------------------------------------------------
(* The pixel level as a state machine: one call of overlay_product_simple. *)

NoImage == [h |-> 0, w |-> 0, ch |-> 0, px |-> <<>>]
NoResult == [kind |-> "none"]

Overlay ==
    /\ result = NoResult
    /\ background # NoImage
    /\ \E below \in SUBSET { t \in BlendTriples(background, product_img) :
                              MayRoundBelow(t[1], t[2], t[3]) } :
         LET out == overlay_product_simple(background, product_img, below)
         IN  /\ result' = out
             /\ background' = IF out.kind = "ok" /\ out.inplace
                              THEN out.img ELSE background
             /\ product_img' = ProductAfterCall(background, product_img, below)
    /\ UNCHANGED bg0
    /\ UNCHANGED <<pipeVars, resizeVars>>

-----------------------------------------------------------------------------
(* resize_and_pad_image: the geometry of the resized and padded image.     *)

PercentMax == 100

RECURSIVE GCD(_, _)
GCD(a, b) == IF b = 0 THEN a ELSE GCD(b, a % b)

RECURSIVE IsPowerOfTwo(_)
IsPowerOfTwo(n) == n = 1 \/ (n > 1 /\ n % 2 = 0 /\ IsPowerOfTwo(n \div 2))

\* The quotient a / b of two small whole numbers is a float64 without
\* rounding when its reduced denominator is a power of two.
Representable(a, b) == IsPowerOfTwo(b \div GCD(a, b))

\* int(x * (a / b)) and int(x / (a / b)) in float64.  When a / b is rounded
\* and the exact result is a whole number k >= 1, the float64 result can fall
\* short of k and int() yields k - 1 (int(49 * (1 / 49)) = 0,
\* int(35 / (7 / 3)) = 14, int(100 * (29 / 100)) = 28).
FallsShort(num, den, a, b, short) ==
    short /\ num % den = 0 /\ num >= den /\ ~Representable(a, b)
TruncProduct(x, a, b, short) ==
    IF FallsShort(x * a, b, a, b, short)
    THEN (x * a) \div b - 1 ELSE (x * a) \div b
TruncQuotient(x, a, b, short) ==
    IF FallsShort(x * b, a, a, b, short)
    THEN (x * b) \div a - 1 ELSE (x * b) \div a

InRange(percent) == 0 <= percent /\ percent <= PercentMax

\* resize_and_pad_image on an image of img_w x img_h pixels.  short[1..4]:
\* which of the four float64 results fall short where they can.
resize_and_pad_image(a, short) ==
    IF ~InRange(a.horizontal_placement) \/ ~InRange(a.vertical_placement)
          \/ ~InRange(a.resize_percent)
    THEN [kind |-> "raise", error |-> "ValueError", at |-> "validate"]
    ELSE
    LET wide == a.img_w * a.target_height > a.target_width * a.img_h
        new_width ==
            IF wide
            THEN TruncProduct(a.target_width, a.resize_percent, PercentMax, short[1])
            ELSE TruncProduct(
                    TruncProduct(a.target_height, a.resize_percent, PercentMax,
                                 short[1]),
                    a.img_w, a.img_h, short[2])
        new_height ==
            IF wide
            THEN TruncQuotient(new_width, a.img_w, a.img_h, short[2])
            ELSE TruncProduct(a.target_height, a.resize_percent, PercentMax, short[1])
        pad_left == TruncProduct(a.target_width - new_width,
                                 a.horizontal_placement, PercentMax, short[3])
        pad_top  == TruncProduct(a.target_height - new_height,
                                 a.vertical_placement, PercentMax, short[4])
    IN  IF new_width < 1 \/ new_height < 1
        \* img.resize: "height and width must be > 0"
        THEN [kind |-> "raise", error |-> "ValueError", at |-> "resize",
              new_width |-> new_width, new_height |-> new_height]
        ELSE [kind |-> "ok", new_width |-> new_width, new_height |-> new_height,
              pad_left |-> pad_left, pad_top |-> pad_top,
              width |-> a.target_width, height |-> a.target_height]

Placements == {-1, 0, 50, PercentMax, PercentMax + 1}
Percents   == {-1, 0, 30, 50, PercentMax, PercentMax + 1}

ResizeInputs ==
    [img_w : 1..MaxImage, img_h : 1..MaxImage,
     target_width : 1..MaxTarget, target_height : 1..MaxTarget,
     horizontal_placement : Placements, vertical_placement : Placements,
     resize_percent : Percents]

NoArgs == [img_w |-> 0, img_h |-> 0, target_width |-> 0, target_height |-> 0,
           horizontal_placement |-> 0, vertical_placement |-> 0,
           resize_percent |-> 0]

Resize ==
    /\ final_img = NoResult
    /\ resize_args # NoArgs
    /\ \E short \in [1..4 -> BOOLEAN] :
          final_img' = resize_and_pad_image(resize_args, short)
    /\ UNCHANGED resize_args
    /\ UNCHANGED <<pipeVars, blendVars>>

-----------------------------------------------------------------------------
InitPipe ==
    /\ dirExists = FALSE
    /\ dirFiles = <<>>
    /\ outFile = NoFile
    /\ h264File = NoFile
    /\ started = 0
    /\ runId = [r \in Runs |-> 0]
    /\ pc = [r \in Runs |-> "Idle"]
    /\ inp = [r \in Runs |-> NoInput]
    /\ ret = [r \in Runs |-> -1]
    /\ err = [r \in Runs |-> "none"]
    /\ log = [r \in Runs |-> <<>>]
    /\ clip = [r \in Runs |-> "none"]

Init ==
    /\ InitPipe
    /\ background = NoImage /\ product_img = NoImage /\ bg0 = NoImage
    /\ result = NoResult
    /\ resize_args = NoArgs /\ final_img = NoResult

InitBlend ==
    /\ InitPipe
    /\ background \in Backgrounds
    /\ product_img \in Products
    /\ bg0 = background
    /\ result = NoResult
    /\ resize_args = NoArgs /\ final_img = NoResult

InitResize ==
    /\ InitPipe
    /\ background = NoImage /\ product_img = NoImage /\ bg0 = NoImage
    /\ result = NoResult
    /\ resize_args \in ResizeInputs
    /\ final_img = NoResult

Stage(r) ==
    \/ split_video_to_frames(r)
    \/ create_video_with_overlay(r)
    \/ CleanUp(r)
    \/ convert_to_h264(r)
    \/ Abort(r)

Next == \E r \in Runs : Start(r) \/ Stage(r)

NextLong == \E r \in Runs : StartLong(r) \/ Stage(r)

NextConcurrent == \E r \in Runs : Start(r) \/ StartOverlapping(r) \/ Stage(r)

NextBlend == Overlay

NextResize == Resize

Spec           == Init /\ [][Next]_vars
SpecLong       == Init /\ [][NextLong]_vars
SpecConcurrent == Init /\ [][NextConcurrent]_vars
SpecBlend      == InitBlend /\ [][NextBlend]_vars
SpecResize     == InitResize /\ [][NextResize]_vars

-----------------------------------------------------------------------------
(* Claims.                                                                 *)

NoRunUnderWay == \A r \in Runs : pc[r] \notin Active
WriteFault(i) == i.fault \in {"imwrite", "corrupt"}

\* C1: however a run ends (success, a stage raising, the caller aborting),
\* the intermediate frame directory no longer exists once control is back
\* with the caller: whenever a run has ended and none is under way, the
\* directory does not exist.
C1_DirectoryRemovedOnEveryExit ==
    (NoRunUnderWay /\ \E r \in Runs : pc[r] \in Terminal) => ~dirExists

\* C2: a run whose stage fails ends in Failed with the error that stage raised,
\* and leaves no partially written video (a container that was opened and
\* never finished) at the output path.
C2_FailureLeavesNoPartialVideo ==
    \A r \in Runs :
        pc[r] = "Failed" =>
            /\ err[r] # "none"
            /\ ~(outFile.exists /\ ~outFile.released /\ outFile.by = runId[r])

\* C3: on a video of N decodable frames and an empty directory (every write
\* succeeding), split_video_to_frames returns N and leaves exactly the files
\* of indices 0..N-1, the file of index i holding the i-th decoded frame.
SplitReturns(r) == pc[r] = "Extracting" /\ pc'[r] = "CompositingAssembling"
HoldsOwnFrames(r) ==
    /\ Len(ListDir(dirFiles)) = ret[r]
    /\ \A j \in 1..ret[r] :
          /\ j \in DOMAIN dirFiles
          /\ dirFiles[j].vid = runId[r] /\ dirFiles[j].k = j - 1 /\ dirFiles[j].ok
C4_FrameOrderPreserved ==
    \A r \in Runs :
        (pc[r] = "Cleaning" /\ outFile.by = runId[r] /\ HoldsOwnFrames(r)) =>
            /\ Len(outFile.frames) = ret[r]
            /\ \A j \in 1..ret[r] :
                  outFile.frames[j] = [vid |-> runId[r], k |-> j - 1]

\* C7: split_video_to_frames raises IOError when the video cannot be opened
\* or has no decodable frame: it never returns 0.
C7_SplitRaisesOnNoFrames ==
    \A r \in Runs :
        /\ ret[r] # 0
        /\ (pc[r] \notin {"Idle", "Extracting"} /\ Decoded(inp[r]) = 0
              /\ log[r][Len(log[r])] # Ev("interrupt", -1)
              /\ ret[r] = -1)
           => err[r] = "IOError"

\* C8: create_video_with_overlay raises IOError on an empty directory or an
\* unreadable first frame, raises EncodingError when the writer cannot be
\* initialized, and in none of these cases writes frames or returns normally.
CreateEnds(r) == pc[r] = "CompositingAssembling" /\ pc'[r] # pc[r]
                    /\ err'[r] # "KeyboardInterrupt"
C8_CreateRaisesTypedErrors ==
    [][\A r \in Runs :
          (CreateEnds(r) /\ inp[r].fault # "noproduct") =>
              /\ (ListDir(dirFiles) = <<>> \/ ~FileAt(dirFiles, SortedListing(dirFiles)[1]).ok)
                    => (pc'[r] = "Failed" /\ err'[r] = "IOError")
              /\ (ListDir(dirFiles) # <<>>
                    /\ FileAt(dirFiles, SortedListing(dirFiles)[1]).ok
                    /\ inp[r].fault = "writer")
                    => (pc'[r] = "Failed" /\ err'[r] = "EncodingError")]_vars

-----------------------------------------------------------------------------
SameShape == bg0.h = product_img.h /\ bg0.w = product_img.w

\* C5: for a background and a product of equal dimensions, every colour
\* channel of every pixel of the result is within 1 unit of
\* bg*(1-a) + fg*a (a = alpha/255) and lies in 0..255, never wrapped around.
C5_BlendWithinOneUnit ==
    (result.kind = "ok" /\ SameShape) =>
        \A p \in DOMAIN bg0.px : \A c \in 1..3 :
            LET v   == result.img.px[p][c]
                num == BlendNum(bg0.px[p][c], product_img.px[p][c],
                                product_img.px[p][4])
            IN  /\ v \in 0..AlphaMax
                /\ AlphaMax * v - AlphaMax <= num
                /\ num <= AlphaMax * v + AlphaMax

\* A blend with a partly transparent pixel whose exact value is no whole number.
C5_Witness ==
    /\ result.kind = "ok" /\ SameShape
    /\ \E p \in DOMAIN bg0.px : \E c \in 1..3 :
          /\ product_img.px[p][4] \in 1..(AlphaMax - 1)
          /\ AlphaMax * result.img.px[p][c]
                < BlendNum(bg0.px[p][c], product_img.px[p][c], product_img.px[p][4])

\* C6: when background and product differ in width or height the compositor
\* raises DimensionMismatchError and returns no frame.
C6_MismatchRaisesDimensionMismatch ==
    (result.kind # "none" /\ product_img.ch = 4 /\ ~SameShape) =>
        (result.kind = "raise" /\ result.error = "DimensionMismatchError")

-----------------------------------------------------------------------------
(* The order of a run's calls.                                             *)

At(r, op)     == { i \in 1..Len(log[r]) : log[r][i][1] = op }
Before(S, T)  == \A i \in S : \A j \in T : i < j
Overlays(r)   == SelectSeq(log[r], LAMBDA e : e[1] = "overlay")

Rank(p) ==
    CASE p = "Idle" -> 0
      [] p = "Extracting" -> 1
      [] p = "CompositingAssembling" -> 2
      [] p = "Cleaning" -> 3
      [] p = "Transcoding" -> 4
      [] p = "Done" -> 5
      [] p = "Failed" -> 6

\* A step of kernel r: a new run begins at Extracting once the earlier one has
\* ended, and a run goes to the next stage or to Failed.
Forward(r) ==
    pc'[r] # pc[r] =>
        IF runId'[r] # runId[r]
        THEN pc[r] \notin Active /\ pc'[r] = "Extracting"
        ELSE /\ pc[r] \in Active
             /\ (pc'[r] = "Failed" \/ Rank(pc'[r]) = Rank(pc[r]) + 1)

CallOrder(r) ==
    \* the directory is created before the capture is opened and any frame written
    /\ Before(At(r, "mkdir"), At(r, "VideoCapture") \cup At(r, "imwrite"))
    \* extraction has finished before the writer is opened
    /\ Before(At(r, "imwrite") \cup At(r, "cap.release"), At(r, "VideoWriter"))
    \* every compositor call lies between the writer's opening and its release
    /\ Before(At(r, "VideoWriter"), At(r, "overlay"))
    /\ Before(At(r, "overlay") \cup At(r, "out.write"), At(r, "out.release"))
    \* each composite is written before the next frame is composited
    /\ \A i \in At(r, "overlay") :
          i < Len(log[r]) =>
              log[r][i + 1] \in {Ev("out.write", log[r][i][2]), Ev("interrupt", -1)}
    /\ \A i \in At(r, "out.write") : log[r][i - 1] = Ev("overlay", log[r][i][2])
    \* one compositor call per frame file, in ascending order of file name
    /\ \A i \in 1..(Len(Overlays(r)) - 1) :
          StrLess(FrameName(Overlays(r)[i][2]), FrameName(Overlays(r)[i + 1][2]), 1)
    /\ pc[r] = "Cleaning" =>
          { Overlays(r)[i][2] : i \in 1..Len(Overlays(r)) }
              = { ListDir(dirFiles)[i] : i \in 1..Len(ListDir(dirFiles)) }
    \* the directory is removed after assembly and before transcoding starts
    /\ Before(At(r, "out.release"), At(r, "rmdir"))
    /\ Before(At(r, "rmdir"), At(r, "VideoFileClip"))
    /\ pc[r] \in {"Transcoding", "Done"} => At(r, "rmdir") # {}

C10_NoRunTouchesAnotherRunsFrames ==
    [][\A q \in Runs :
          (pc[q] \in Active /\ log'[q] = log[q]) =>
              \A i \in DOMAIN dirFiles :
                  dirFiles[i].vid = runId[q] =>
                      (i \in DOMAIN dirFiles' /\ dirFiles'[i] = dirFiles[i])]_vars

-----------------------------------------------------------------------------
AfterExtraction == {"CompositingAssembling", "Cleaning", "Transcoding", "Done"}
AfterAssembly   == {"Cleaning", "Transcoding", "Done"}

\* C11: no stage silently drops a frame.  A run whose extraction returned
\* normally has a frame count equal to the number of frames of its video, and
\* while it composites, every one of these frames is a file of the run in the
\* directory; a run whose assembly returned normally with an opened writer
\* has written at least as many frames as its video has.
C11_NoFrameSilentlyDropped ==
    \A r \in Runs :
        /\ pc[r] \in AfterExtraction => ret[r] = inp[r].video.nframes
        /\ pc[r] = "CompositingAssembling" =>
              \A k \in 0..(inp[r].video.nframes - 1) :
                  FileAt(dirFiles, k).vid = runId[r]
        /\ (pc[r] \in AfterAssembly /\ outFile.by = runId[r]) =>
              Len(outFile.frames) >= inp[r].video.nframes

\* C12: on every exit of convert_to_h264 the clip it opened is closed, and
\* when the input is unreadable or the codec cannot encode, the error the
\* run ends with is EncodingError.
TranscodeRaised(r) ==
    /\ pc[r] = "Failed"
    /\ log[r] # <<>>
    /\ log[r][Len(log[r])][1] \in {"VideoFileClip", "write_videofile"}
C12_ClipReleasedOnEveryExit ==
    \A r \in Runs :
        /\ pc[r] \in Terminal => clip[r] # "open"
        /\ TranscodeRaised(r) => err[r] = "EncodingError"

\* C13: the container create_video_with_overlay has written is opened with
\* the frame rate it was given and the width and height of the first frame
\* read, every frame handed to the writer has 3 channels, and the frames are
\* in it in ascending index order.
C13_WriterGetsFramesInIndexOrder ==
    \A r \in Runs :
        (pc[r] = "Cleaning" /\ outFile.by = runId[r]) =>
            /\ outFile.fps = inp[r].fps
            /\ outFile.size = FileAt(dirFiles, SortedListing(dirFiles)[1]).shape
            /\ outFile.ch = 3
            /\ \A j \in 1..(Len(outFile.frames) - 1) :
                  outFile.frames[j].k < outFile.frames[j + 1].k

\* C14: the transcoded video has the frame rate specified for the run, for
\* every rate the assembler can be given, and the frames of the assembled
\* video in the same number and order, hence the same duration.
C14_TranscodeKeepsRateAndFrames ==
    \A r \in Runs :
        (pc[r] = "Done" /\ h264File.by = runId[r]) =>
            /\ h264File.fps = inp[r].fps
            /\ h264File.frames = outFile.frames
            /\ Len(h264File.frames) * outFile.fps = Len(outFile.frames) * h264File.fps

-----------------------------------------------------------------------------
\* The pixel of the product that is blended into pixel p of the background.
ProductAt(p) == product_img.px[BroadcastIndex(p, product_img.h, product_img.w)]

\* C15: in a composited frame, every pixel where the product's alpha is 0
\* has exactly the background's three colour values, and every pixel where
\* the alpha is 255 has exactly the product's.
C15_TransparentAndOpaqueExact ==
    result.kind = "ok" =>
        \A p \in DOMAIN bg0.px : \A c \in 1..3 :
            /\ ProductAt(p)[4] = 0 => result.img.px[p][c] = bg0.px[p][c]
            /\ ProductAt(p)[4] = AlphaMax => result.img.px[p][c] = ProductAt(p)[c]

\* A composite with a transparent and an opaque pixel, the product's colour
\* differing from the background's at both.
C15_Witness ==
    /\ result.kind = "ok"
    /\ \E p \in DOMAIN bg0.px : \E c \in 1..3 :
          ProductAt(p)[4] = 0 /\ ProductAt(p)[c] # bg0.px[p][c]
    /\ \E p \in DOMAIN bg0.px : \E c \in 1..3 :
          ProductAt(p)[4] = AlphaMax /\ ProductAt(p)[c] # bg0.px[p][c]

C17_NoStaleFrameInOutput ==
    \A r \in Runs :
        (pc[r] = "Cleaning" /\ outFile.by = runId[r]) =>
            /\ \A j \in 1..Len(outFile.frames) : outFile.frames[j].vid = runId[r]
            /\ FileAt(dirFiles, SortedListing(dirFiles)[1]).vid = runId[r]

-----------------------------------------------------------------------------
\* C18: resize_and_pad_image raises ValueError when a placement or the
\* resize percentage is outside 0..100; for values inside, whatever the
\* image's size, the resized image has non-zero width and height, keeps the
\* image's aspect ratio up to integer truncation, and lies entirely inside
\* the canvas, which is target_width x target_height.
ArgsInRange ==
    /\ InRange(resize_args.horizontal_placement)
    /\ InRange(resize_args.vertical_placement)
    /\ InRange(resize_args.resize_percent)
AspectKept(w, h) ==
    \/ /\ h * resize_args.img_w <= w * resize_args.img_h
       /\ w * resize_args.img_h <= (h + 1) * resize_args.img_w
    \/ /\ w * resize_args.img_h <= h * resize_args.img_w
       /\ h * resize_args.img_w <= (w + 1) * resize_args.img_h
C18_ResizedImageInsideCanvas ==
    final_img.kind # "none" =>
        IF ~ArgsInRange
        THEN final_img.kind = "raise" /\ final_img.error = "ValueError"
        ELSE /\ final_img.kind = "ok"
             /\ final_img.new_width > 0 /\ final_img.new_height > 0
             /\ AspectKept(final_img.new_width, final_img.new_height)
             /\ 0 <= final_img.pad_left
             /\ final_img.pad_left + final_img.new_width <= resize_args.target_width
             /\ 0 <= final_img.pad_top
             /\ final_img.pad_top + final_img.new_height <= resize_args.target_height
             /\ final_img.width = resize_args.target_width
             /\ final_img.height = resize_args.target_height

=============================================================================
